---- MODULE Spec2Model ----
(***************************************************************************)
(* Model of the WordPuzzleFinder component (src/app/wordPuzzleFinder.tsx): *)
(* the four form fields, the validator, the query builder, the fetch with  *)
(* its result filter, and the submit handler.                              *)
(*                                                                         *)
(* A JavaScript string is a sequence of one-character strings, so that     *)
(* toUpperCase, toLowerCase, replace, split, repeat, join and Number are   *)
(* computed character by character.                                       *)
(***************************************************************************)
EXTENDS Integers, Sequences, FiniteSets, TLC

VARIABLES letters, length, pattern, excludedLetters, results, error,
          isLoading, inflight, last

vars == <<letters, length, pattern, excludedLetters, results, error,
          isLoading, inflight, last>>

\* ------------------------------------------------------------------ bounds

\* The longest candidate array a response carries.
MaxWords == 2

\* ------------------------------------------------------- strings and chars

UpperAlpha == <<"A","B","C","D","E","F","G","H","I","J","K","L","M",
                "N","O","P","Q","R","S","T","U","V","W","X","Y","Z">>

LowerAlpha == <<"a","b","c","d","e","f","g","h","i","j","k","l","m",
                "n","o","p","q","r","s","t","u","v","w","x","y","z">>

Digits == <<"0","1","2","3","4","5","6","7","8","9">>

Range(s) == {s[i] : i \in DOMAIN s}

UpperSet == Range(UpperAlpha)

LowerSet == Range(LowerAlpha)

DigitSet == Range(Digits)

IndexIn(s, ch) == CHOOSE i \in DOMAIN s : s[i] = ch

UpperChar(ch) ==
  IF ch \in LowerSet THEN UpperAlpha[IndexIn(LowerAlpha, ch)] ELSE ch

LowerChar(ch) ==
  IF ch \in UpperSet THEN LowerAlpha[IndexIn(UpperAlpha, ch)] ELSE ch

\* String.prototype.toUpperCase / toLowerCase
toUpperCase(s) == [i \in DOMAIN s |-> UpperChar(s[i])]

toLowerCase(s) == [i \in DOMAIN s |-> LowerChar(s[i])]

\* String.prototype.includes for a one-character needle
includes(s, ch) == \E i \in DOMAIN s : s[i] = ch

\* "?".repeat(n)
RECURSIVE repeat(_, _)
repeat(ch, n) == IF n <= 0 THEN <<>> ELSE <<ch>> \o repeat(ch, n - 1)

\* Array.prototype.join over an array of strings
RECURSIVE join(_, _)
join(parts, sep) ==
  IF parts = <<>> THEN <<>>
  ELSE IF Len(parts) = 1 THEN parts[1]
  ELSE parts[1] \o sep \o join(Tail(parts), sep)

\* Number(s) for a string of decimal digits (Number("") is 0)
RECURSIVE Number(_)
Number(s) ==
  IF s = <<>> THEN 0
  ELSE 10 * Number(SubSeq(s, 1, Len(s) - 1)) + (IndexIn(Digits, s[Len(s)]) - 1)

\* ---------------------------------------------------------------- messages

EmptyCriteria == "Enter at least one search criteria"

LengthMismatch == "Pattern length must match word length"

RateLimited == "API rate limit exceeded"

FetchFailed == "Failed to fetch words"

NoMatches == "No matches found"

\* ------------------------------------------------------ the input handlers

\* e.target.value.toUpperCase().replace(/[^A-Z]/g, "")
SanitizeLetters(raw) ==
  SelectSeq(toUpperCase(raw), LAMBDA ch : ch \in UpperSet)

\* e.target.value.replace(/\D/g, "")
SanitizeLength(raw) == SelectSeq(raw, LAMBDA ch : ch \in DigitSet)

\* e.target.value.toUpperCase().replace(/[^A-Z?]/g, "")
SanitizePattern(raw) ==
  SelectSeq(toUpperCase(raw), LAMBDA ch : ch \in UpperSet \cup {"?"})

\* What the user types into the two letter fields.
RawLetters == { <<>>, <<"a", "1", "B">> }

RawExcluded == { <<>>, <<"c", "-", "d">> }

\* What the number input reports as its value.
RawLength == { <<>>, <<"0">>, <<"0", "2">>, <<"-", "3">>, <<"1", ".", "6">> }

\* What the user types into the pattern field.
RawPattern == { <<>>, <<"a", "?">> }

setLetters(raw) ==
  /\ letters' = SanitizeLetters(raw)
  /\ UNCHANGED <<length, pattern, excludedLetters, results, error,
                 isLoading, inflight, last>>

setExcludedLetters(raw) ==
  /\ excludedLetters' = SanitizeLetters(raw)
  /\ UNCHANGED <<letters, length, pattern, results, error,
                 isLoading, inflight, last>>

setLength(raw) ==
  /\ length' = SanitizeLength(raw)
  /\ UNCHANGED <<letters, pattern, excludedLetters, results, error,
                 isLoading, inflight, last>>

\* maxLength={Number(length)} on the pattern input: typing cannot make the
\* field longer than that; a value that is already longer can only shrink.
maxLengthAllows(raw) == Len(raw) <= Number(length) \/ Len(raw) <= Len(pattern)

setPattern(raw) ==
  /\ maxLengthAllows(raw)
  /\ pattern' = SanitizePattern(raw)
  /\ UNCHANGED <<letters, length, excludedLetters, results, error,
                 isLoading, inflight, last>>

\* ------------------------------------------------------------ query builder

\* URLSearchParams: the appended <<name, value>> pairs, in order.
has(params, name) == \E i \in DOMAIN params : params[i][1] = name

get(params, name) ==
  params[CHOOSE i \in DOMAIN params :
           /\ params[i][1] = name
           /\ \A j \in 1..(i - 1) : params[j][1] # name][2]

\* .split("").map((l) => `-${l}`)
negated(s) == [i \in DOMAIN s |-> <<"-", s[i]>>]

\* Faulty variant: the wildcard pattern is as long as the length field's text, not as
\* its number ("?".repeat(length.length)).
buildQueryParamsByDigits(pat, len, excl) ==
  LET finalPattern ==
        IF pat = <<>> /\ len # <<>> THEN repeat("?", Len(len)) ELSE pat
      sp == IF finalPattern # <<>>
              THEN << <<"sp", toLowerCase(finalPattern)>> >>
              ELSE <<>>
      q  == IF excl # <<>>
              THEN << <<"q", join(negated(toLowerCase(excl)), <<" ">>)>> >>
              ELSE <<>>
  IN  sp \o q \o << <<"max", <<"2", "0", "0">>>>, <<"md", <<"d">>>> >>

buildQueryParams(pat, len, excl) ==
  LET finalPattern ==
        IF pat = <<>> /\ len # <<>> THEN repeat("?", Number(len)) ELSE pat
      sp == IF finalPattern # <<>>
              THEN << <<"sp", toLowerCase(finalPattern)>> >>
              ELSE <<>>
      q  == IF excl # <<>>
              THEN << <<"q", join(negated(toLowerCase(excl)), <<" ">>)>> >>
              ELSE <<>>
  IN  sp \o q \o << <<"max", <<"2", "0", "0">>>>, <<"md", <<"d">>>> >>

\* ---------------------------------------------------------------- validator

\* Faulty variant: the excluded letters count as a search criterion.
validateInputsCountsExcluded(let, pat, len) ==
  IF let = <<>> /\ pat = <<>> /\ len = <<>> /\ excludedLetters = <<>>
    THEN EmptyCriteria
  ELSE IF pat # <<>> /\ len # <<>> /\ Len(pat) # Number(len) THEN LengthMismatch
  ELSE ""

\* Faulty variant: the pattern's length is never compared with the length field.
validateInputsNoMismatch(let, pat, len) ==
  IF let = <<>> /\ pat = <<>> /\ len = <<>> THEN EmptyCriteria ELSE ""

validateInputs(let, pat, len) ==
  IF let = <<>> /\ pat = <<>> /\ len = <<>> THEN EmptyCriteria
  ELSE IF pat # <<>> /\ len # <<>> /\ Len(pat) # Number(len) THEN LengthMismatch
  ELSE ""

\* ------------------------------------------------------------ result filter

\* Faulty variant: one required letter is enough (some instead of every).
KeepItemSome(item, let, len, excl) ==
  LET word == toUpperCase(item.word)
  IN  /\ (len = <<>> \/ Len(word) = Number(len))
      /\ (let = <<>> \/ \E i \in DOMAIN let : includes(word, let[i]))
      /\ (excl = <<>> \/ ~ \E i \in DOMAIN excl : includes(word, excl[i]))

\* The predicate of data.filter(...), on one item of the response.
KeepItem(item, let, len, excl) ==
  LET word == toUpperCase(item.word)
  IN  /\ (len = <<>> \/ Len(word) = Number(len))
      /\ (let = <<>> \/ \A i \in DOMAIN let : includes(word, let[i]))
      /\ (excl = <<>> \/ ~ \E i \in DOMAIN excl : includes(word, excl[i]))

\* data.filter(...).map((item) => item.word.toUpperCase())
filteredWords(data, let, len, excl) ==
  LET kept == SelectSeq(data, LAMBDA item : KeepItem(item, let, len, excl))
  IN  [i \in DOMAIN kept |-> toUpperCase(kept[i].word)]

\* ------------------------------------------------------------- the service

\* The words the lookup service may return, in any order, case and number.
ServiceWords == { <<"a", "b">>, <<"c", "a">>, <<"B", "c", "a">> }

RECURSIVE SeqsUpTo(_, _)
SeqsUpTo(S, n) ==
  IF n = 0 THEN { <<>> }
  ELSE LET shorter == SeqsUpTo(S, n - 1)
       IN  shorter \cup { Append(s, x) : s \in shorter, x \in S }

\* A 2xx body that parses: an array of WordItem (defs is never read).
Bodies == SeqsUpTo({ [word |-> w] : w \in ServiceWords }, MaxWords)

\* Statuses of a response that is not ok and not 429.
ErrorStatuses == { 404, 500 }

\* What a rejected fetch() throws: a TypeError with the browser's message, or
\* (a replaced fetch) a value that is no Error.
FetchThrows == { [isError |-> TRUE,  message |-> "Failed to fetch"],
                 [isError |-> FALSE, message |-> ""] }

\* What response.json() throws on a body that is no JSON.
JsonThrows == { [isError |-> TRUE, message |-> "Unexpected end of JSON input"] }

\* new Error(message)
Error(message) == [isError |-> TRUE, message |-> message]

\* ------------------------------------------------------------------- submit

MinLength == 1

MaxLength == 15

\* The browser's check of the number input (min="1" max="15") before the
\* form's submit event is fired.
lengthInRange ==
  length = <<>> \/ (MinLength <= Number(length) /\ Number(length) <= MaxLength)

\* Faulty variant: the submit button is never disabled.
submitAlways == TRUE

\* disabled={isLoading} on the submit button.
submitEnabled == ~ isLoading

\* The render's state a call of fetchWords closes over.
Closure == [letters |-> letters, length |-> length, pattern |-> pattern,
            excludedLetters |-> excludedLetters]

NoClosure == [letters |-> <<>>, length |-> <<>>, pattern |-> <<>>,
              excludedLetters |-> <<>>]

\* fetchWords up to its first await: the request is built and sent.
fetchWordsStart ==
  /\ isLoading' = TRUE
  /\ inflight' = Append(inflight,
                        [c |-> Closure,
                         queryParams |-> buildQueryParams(pattern, length,
                                                          excludedLetters)])

handleSubmit ==
  /\ submitEnabled
  /\ lengthInRange
  /\ LET validationError == validateInputs(letters, pattern, length)
     IN  IF validationError # ""
           THEN /\ error' = validationError
                /\ last' = [kind |-> "invalid", c |-> Closure, data |-> <<>>,
                            thrown |-> <<>>]
                /\ UNCHANGED <<isLoading, inflight>>
           ELSE /\ error' = ""
                /\ fetchWordsStart
                /\ last' = [kind |-> "fetching", c |-> Closure, data |-> <<>>,
                            thrown |-> <<>>]
  /\ UNCHANGED <<letters, length, pattern, excludedLetters, results>>

\* ------------------------------------------------- the fetch's continuation

RemoveAt(s, i) == SubSeq(s, 1, i - 1) \o SubSeq(s, i + 1, Len(s))

\* Faulty variant: every caught failure shows the generic message.
catchGeneric(i, err, how, thrown) ==
  /\ error' = FetchFailed
  /\ isLoading' = FALSE
  /\ inflight' = RemoveAt(inflight, i)
  /\ last' = [kind |-> how, c |-> NoClosure, data |-> <<>>, thrown |-> thrown]
  /\ UNCHANGED <<letters, length, pattern, excludedLetters, results>>

\* catch (err) { setError(...) } finally { setIsLoading(false) }
\* `how` and `thrown` only record, in last, how the fetch failed and what the
\* network or the body parser threw.
catch(i, err, how, thrown) ==
  /\ error' = (IF err.isError THEN err.message ELSE FetchFailed)
  /\ isLoading' = FALSE
  /\ inflight' = RemoveAt(inflight, i)
  /\ last' = [kind |-> how, c |-> NoClosure, data |-> <<>>, thrown |-> thrown]
  /\ UNCHANGED <<letters, length, pattern, excludedLetters, results>>

\* await fetch(...) rejects.
fetchRejects(i, err) == catch(i, err, "rejected", <<err>>)

\* response.status === 429
respond429(i) == catch(i, Error(RateLimited), "status429", <<>>)

\* !response.ok
respondNotOk(i, status) ==
  /\ status # 429 /\ status \notin 200..299
  /\ catch(i, Error(FetchFailed), "statusNotOk", <<>>)

\* await response.json() rejects.
jsonRejects(i, err) == catch(i, err, "badBody", <<err>>)

\* Faulty variant: an empty filtered list raises no "no matches" notice.
respondOkNoNotice(i, data) ==
  LET c == inflight[i].c
      filtered == filteredWords(data, c.letters, c.length, c.excludedLetters)
  IN  /\ results' = filtered
      /\ error' = ""
      /\ isLoading' = FALSE
      /\ inflight' = RemoveAt(inflight, i)
      /\ last' = [kind |-> "ok", c |-> c, data |-> data, thrown |-> <<>>]
      /\ UNCHANGED <<letters, length, pattern, excludedLetters>>

\* A 2xx response whose body parses to `data`.
respondOk(i, data) ==
  LET c == inflight[i].c
      filtered == filteredWords(data, c.letters, c.length, c.excludedLetters)
  IN  /\ results' = filtered
      /\ error' = (IF Len(filtered) # 0 THEN "" ELSE NoMatches)
      /\ isLoading' = FALSE
      /\ inflight' = RemoveAt(inflight, i)
      /\ last' = [kind |-> "ok", c |-> c, data |-> data, thrown |-> <<>>]
      /\ UNCHANGED <<letters, length, pattern, excludedLetters>>

\* --------------------------------------------------------- the state machine

\* last is a history of the latest submission, read by the properties only:
\*   kind   "none", "invalid" (validation failed), "fetching", "ok" (a 2xx
\*          body that parsed), "status429", "statusNotOk", "rejected" (fetch
\*          threw), "badBody" (response.json() threw);
\*   c      the fields as submitted, kept while they decide error or results;
\*   data   the parsed body of an "ok" response;
\*   thrown what fetch or json() threw, as a sequence of at most one value.

Init ==
  /\ letters = <<>>
  /\ length = <<>>
  /\ pattern = <<>>
  /\ excludedLetters = <<>>
  /\ results = <<>>
  /\ error = ""
  /\ isLoading = FALSE
  /\ inflight = <<>>
  /\ last = [kind |-> "none", c |-> NoClosure, data |-> <<>>, thrown |-> <<>>]

Next ==
  \/ \E raw \in RawLetters : setLetters(raw)
  \/ \E raw \in RawExcluded : setExcludedLetters(raw)
  \/ \E raw \in RawLength : setLength(raw)
  \/ \E raw \in RawPattern : setPattern(raw)
  \/ handleSubmit
  \/ \E i \in DOMAIN inflight, err \in FetchThrows : fetchRejects(i, err)
  \/ \E i \in DOMAIN inflight : respond429(i)
  \/ \E i \in DOMAIN inflight, status \in ErrorStatuses : respondNotOk(i, status)
  \/ \E i \in DOMAIN inflight, err \in JsonThrows : jsonRejects(i, err)
  \/ \E i \in DOMAIN inflight, data \in Bodies : respondOk(i, data)

Spec == Init /\ [][Next]_vars

\* ------------------------------------------------------------- properties

\* The kinds of last in which last.c holds the submitted fields.
Submitted == { "invalid", "fetching", "ok" }

\* The kinds of last that are a failed fetch.
FetchFailures == { "status429", "statusNotOk", "rejected", "badBody" }

\* Whether upper-case word w satisfies the length, required-letter and
\* excluded-letter constraints of c, as sets of characters.
Satisfies(w, c) ==
  /\ (c.length = <<>> \/ Len(w) = Number(c.length))
  /\ (c.letters = <<>> \/ Range(c.letters) \subseteq Range(w))
  /\ (c.excludedLetters = <<>> \/ Range(c.excludedLetters) \cap Range(w) = {})

\* The upper-cased candidates of data that satisfy c, in data's order, each
\* as often as it occurs.
RECURSIVE Kept(_, _)
Kept(data, c) ==
  IF data = <<>> THEN <<>>
  ELSE LET w == toUpperCase(Head(data).word)
       IN  (IF Satisfies(w, c) THEN <<w>> ELSE <<>>) \o Kept(Tail(data), c)

\* Whether word w matches pattern pat position by position.
MatchesPattern(w, pat) ==
  /\ Len(w) = Len(pat)
  /\ \A i \in DOMAIN pat : pat[i] = "?" \/ pat[i] = w[i]

\* C1: a submission whose required letters, pattern and length are all empty
\* (whatever the excluded letters) ends with the EmptyCriteria message as the
\* error and with no lookup request built or outstanding.
C1_EmptyCriteria ==
  (/\ last.kind \in Submitted
   /\ last.c.letters = <<>> /\ last.c.pattern = <<>> /\ last.c.length = <<>>)
  => (last.kind = "invalid" /\ error = EmptyCriteria /\ inflight = <<>>)

C1_Witness ==
  /\ last.kind = "invalid"
  /\ last.c.letters = <<>> /\ last.c.pattern = <<>> /\ last.c.length = <<>>
  /\ last.c.excludedLetters # <<>>
  /\ error = EmptyCriteria
  /\ inflight = <<>>

\* C2: a submission with a pattern and a length whose pattern is not `length`
\* characters long ends with the LengthMismatch message and no request; every
\* request sent with both present has a pattern exactly `length` long.
C2_LengthMismatch ==
  /\ (/\ last.kind \in Submitted
      /\ last.c.pattern # <<>> /\ last.c.length # <<>>
      /\ Len(last.c.pattern) # Number(last.c.length))
     => (last.kind = "invalid" /\ error = LengthMismatch /\ inflight = <<>>)
  /\ \A i \in DOMAIN inflight :
       (inflight[i].c.pattern # <<>> /\ inflight[i].c.length # <<>>)
       => /\ Len(inflight[i].c.pattern) = Number(inflight[i].c.length)
          /\ Len(get(inflight[i].queryParams, "sp")) = Number(inflight[i].c.length)

C2_Witness ==
  /\ last.kind = "invalid"
  /\ last.c.pattern # <<>> /\ last.c.length # <<>>
  /\ Len(last.c.pattern) # Number(last.c.length)
  /\ error = LengthMismatch
  /\ inflight = <<>>

\* C3 (as claimed): every lookup request that is sent carries an sp pattern or
\* a q exclusion expression besides max and md.
C3_RequestConstrained ==
  \A i \in DOMAIN inflight :
    has(inflight[i].queryParams, "sp") \/ has(inflight[i].queryParams, "q")

\* C4: after a 2xx response the stored results are exactly the candidates,
\* upper-cased, in the service's order and with duplicates kept, that satisfy
\* the submitted length, required-letter and excluded-letter constraints.
C4_FilterExact == last.kind = "ok" => results = Kept(last.data, last.c)

C4_Witness ==
  /\ last.kind = "ok"
  /\ last.c.letters # <<>> /\ last.c.length # <<>>
  /\ last.c.excludedLetters # <<>>
  /\ Len(last.data) = 2
  /\ Len(results) = 1
  /\ results[1] # last.data[2].word
  /\ results[1] = toUpperCase(last.data[2].word)

\* C5 (as claimed): when a pattern was submitted, every stored result matches
\* it position by position, whatever the service returned.
C5_ResultsMatchPattern ==
  (last.kind = "ok" /\ last.c.pattern # <<>>)
  => \A k \in DOMAIN results : MatchesPattern(results[k], last.c.pattern)

\* C6: the request's sp is the lower-cased pattern if one is given, otherwise
\* `length` wildcards if a length is given; q is one "-x" term per excluded
\* letter, lower-cased, in input order, separated by single spaces, present
\* iff there are excluded letters; max is 200 and md is d, always.
C6_QueryParams ==
  \A i \in DOMAIN inflight :
    LET c  == inflight[i].c
        qp == inflight[i].queryParams
        n  == Len(c.excludedLetters)
    IN  /\ has(qp, "sp") <=> (c.pattern # <<>> \/ c.length # <<>>)
        /\ c.pattern # <<>> =>
             /\ Len(get(qp, "sp")) = Len(c.pattern)
             /\ \A k \in DOMAIN c.pattern :
                  /\ UpperChar(get(qp, "sp")[k]) = c.pattern[k]
                  /\ get(qp, "sp")[k] \notin UpperSet
        /\ (c.pattern = <<>> /\ c.length # <<>>) =>
             /\ Len(get(qp, "sp")) = Number(c.length)
             /\ \A k \in DOMAIN get(qp, "sp") : get(qp, "sp")[k] = "?"
        /\ has(qp, "q") <=> n > 0
        /\ n > 0 =>
             /\ Len(get(qp, "q")) = 3 * n - 1
             /\ \A k \in 1..n :
                  /\ get(qp, "q")[3 * k - 2] = "-"
                  /\ UpperChar(get(qp, "q")[3 * k - 1]) = c.excludedLetters[k]
                  /\ get(qp, "q")[3 * k - 1] \notin UpperSet
                  /\ k < n => get(qp, "q")[3 * k] = " "
        /\ has(qp, "max") /\ get(qp, "max") = <<"2", "0", "0">>
        /\ has(qp, "md") /\ get(qp, "md") = <<"d">>
        /\ Len(qp) = 2 + (IF has(qp, "sp") THEN 1 ELSE 0)
                       + (IF has(qp, "q") THEN 1 ELSE 0)

C6_Witness ==
  \E i \in DOMAIN inflight :
    /\ inflight[i].c.pattern = <<>>
    /\ Number(inflight[i].c.length) = 3
    /\ inflight[i].c.excludedLetters = <<"C", "D">>
    /\ get(inflight[i].queryParams, "sp") = <<"?", "?", "?">>
    /\ get(inflight[i].queryParams, "q") = <<"-", "c", " ", "-", "d">>

C8_OneInFlight ==
  /\ Len(inflight) <= 1
  /\ isLoading <=> inflight # <<>>

C8_Witness ==
  /\ Len(inflight) = 1
  /\ isLoading
  /\ results # <<>>
  /\ Closure # inflight[1].c
  /\ validateInputs(letters, pattern, length) = "" /\ lengthInRange

\* C9 (as claimed): once the latest submission has finished, the stored
\* results hold only what that submission produced: the filtered response
\* after a success, nothing after a validation failure or a failed fetch.
C9_ResultsOfLatestOnly ==
  /\ last.kind = "ok" => results = Kept(last.data, last.c)
  /\ last.kind \in { "invalid" } \cup FetchFailures => results = <<>>

\* C10: a 2xx response that filters to no words ends the search with empty
\* results and the "no matches" notice, and no failed fetch ends in a state
\* with that notice.
C10_EmptyIsNotFailure ==
  /\ (last.kind = "ok" /\ Kept(last.data, last.c) = <<>>)
     => (results = <<>> /\ error = NoMatches /\ ~ isLoading /\ inflight = <<>>)
  /\ last.kind \in FetchFailures => error # NoMatches

C10_Witness ==
  /\ last.kind = "ok"
  /\ last.data # <<>>
  /\ results = <<>>
  /\ error = NoMatches
  /\ ~ isLoading

====
